---- MODULE Spec2Model ----
(***************************************************************************)
(* Session lifecycle of the portfolio API: token issuance, validation,     *)
(* refresh and revocation over the Redis cache and the user collection.    *)
(* Two revisions of the auth module are modelled side by side:             *)
(*   - the allow-list revision: TokenService + AuthService                 *)
(*     (modules/auth/services/token.service.ts, auth.service.ts) and the   *)
(*     JwtStrategy that consults TokenService.validateAccessToken;         *)
(*   - the blacklist revision: the AuthService that owns generateTokens,   *)
(*     revokeToken, validateToken and changePassword.                      *)
(* Time is counted in whole seconds, as jsonwebtoken and the services do   *)
(* (Math.floor(Date.now() / 1000)).                                        *)
(***************************************************************************)
EXTENDS Integers, Sequences, FiniteSets, Bags, TLC

\* ---------------------------------------------------------------- bounds
MaxTime == 4
MaxPairs == 3
MaxLogins == 1
MaxCalls == 2
MaxRoles == 3
MaxDocs == 2
MaxRequests == 2
\* configuration: token lifetimes in seconds
AccessTtl == 2
RefreshTtl == 3

\* configuration: the unit suffix of JWT_REFRESH_EXPIRES_IN ("3s")
RefreshUnit == "s"

\* ------------------------------------------------------ program constants
defaultTTL == 3600

Emails == {"a@x.com"}
Passwords == {"pw123456", "pw654321"}
InitialPassword == "pw123456"
\* RegisterDto.fullName, and the schema default of User.roles
FullName == "Ann"
\* profile.id of the Facebook accounts that log in
FacebookIds == {"fb1", "fb2"}
DefaultRoles == <<"USER">>

VARIABLES
  now,          \* wall clock, whole seconds since the epoch (never 0)
  users,        \* user collection: sequence of documents, index = _id
  tokens,       \* every token handed to a client, index = jti
  logins,       \* number of login requests served
  cache,        \* Redis: key -> [val, exp]; a key is absent once expired
  calls,        \* bag of the TokenService.refreshAccessToken calls in flight
  last,         \* the request that completed in the last step
  consumed,     \* refresh jtis for which refreshAccessToken returned a pair
  reused,       \* refresh jtis for which it returned a pair more than once
  raced,        \* refresh jtis checked by one call while another call on the
                \* same token was between its check and its delete
  started,      \* refresh jtis presented to refreshAccessToken or logout
  blRefreshed,  \* refresh jtis for which the blacklist refreshToken succeeded
  blLoggedOut,  \* jtis passed to a blacklist logout that returned normally
  stale,        \* jtis minted before their subject's latest password change
  loggingConfig,  \* LoggingService: the configuration its logger was built
                  \* from, with the NODE_ENV it was read for
  loggerContext,  \* LoggingService.context
  logs,           \* every call made on the winston logger, in order
  fbLogins        \* per Facebook profile id: the identities its logins
                  \* resolved to, and the identities created for it

vars == <<now, users, tokens, logins, cache, calls, last, consumed, reused, raced,
          started, blRefreshed, blLoggedOut, stale, loggingConfig,
          loggerContext, logs,
          fbLogins>>

logState == <<loggingConfig, loggerContext, logs>>

alHist == <<consumed, reused, raced, started>>
blHist == <<blRefreshed, blLoggedOut, stale>>

\* ------------------------------------------------------------ token codec
\* A compact token is modelled by its payload plus the name of the secret
\* its signature verifies under ("access", "refresh", "bad" for a signature
\* that verifies under neither, "none" for a string that is not a JWT).
Garbage == [jti |-> 0, sub |-> 0, kind |-> "none", iat |-> 0, exp |-> 0,
            sig |-> "none", by |-> "none"]

Forged(t) == [t EXCEPT !.sig = "bad"]

\* the token strings a client can present: every token that was handed
\* out, a string that is no JWT, and forgeries of the latest pair
Presentable ==
  {tokens[i] : i \in DOMAIN tokens} \cup {Garbage} \cup
  {Forged(tokens[i]) : i \in {j \in DOMAIN tokens : j + 2 > Len(tokens)}}

\* jwtService.sign(payload, {secret, expiresIn}): iat and exp are added
JwtSign(jti, sub, kind, ttl, t, by) ==
  [jti |-> jti, sub |-> sub, kind |-> kind, iat |-> t, exp |-> t + ttl,
   sig |-> kind, by |-> by]

\* jwtService.verify(token, {secret}): signature, then expiry
JwtVerify(tok, secret, t) == tok.sig = secret /\ t < tok.exp

\* jwtService.verify(token, {secret, ignoreExpiration: true})
JwtVerifyIgnoreExp(tok, secret) == tok.sig = secret

\* jwtService.decode(token): the payload without any check, null for a
\* string that is not a JWT
JwtDecodable(tok) == tok.sig # "none"

\* ------------------------------------------------------- JavaScript values
\* A value carries its typeof; a string value carries its text.
JsNull == [type |-> "null"]
Num(n) == [type |-> "number", num |-> n]
Bool(b) == [type |-> "boolean", bool |-> b]
Str(t) == [type |-> "string", text |-> t]
Arr(s) == [type |-> "array", elems |-> s]
Obj(f) == [type |-> "object", props |-> f]

\* A text is the empty string, the JSON rendering of a value, or characters
\* that JSON.parse rejects.
EmptyText == [form |-> "empty"]
Plain(chars) == [form |-> "plain", chars |-> chars]

\* JSON.stringify(v)
JsonStringify(v) == [form |-> "json", of |-> v]

\* JSON.parse(text) succeeds exactly on a JSON rendering
JsonParses(text) == text.form = "json"
JsonParse(text) == text.of

\* ------------------------------------------------------------------ Redis
Key(prefix, id) == <<prefix, id>>

\* RedisService.set: a string is stored as it is, anything else as its JSON
\* rendering
stringValue(value) ==
  IF value.type = "string" THEN value.text ELSE JsonStringify(value)

\* RedisService.set: EX ttl when ttl is truthy, EX defaultTTL otherwise
RedisSet(c, key, value, ttl, t) ==
  [k \in DOMAIN c \cup {key} |->
     IF k = key
     THEN [val |-> stringValue(value),
           exp |-> t + (IF ttl # 0 THEN ttl ELSE defaultTTL)]
     ELSE c[k]]

\* RedisService.get (parse = true): null for a missing key or an empty
\* string, the parsed value when the stored text parses as JSON, the stored
\* text as a string otherwise
RedisGet(c, key) ==
  IF key \notin DOMAIN c THEN JsNull
  ELSE LET value == c[key].val
       IN IF value.form = "empty" THEN JsNull
          ELSE IF JsonParses(value) THEN JsonParse(value)
          ELSE Str(value)

RedisDelete(c, key) == [k \in DOMAIN c \ {key} |-> c[k]]

RedisExists(c, key) == key \in DOMAIN c

\* Redis drops a key once its TTL has run out
Expire(c, t) == [k \in {x \in DOMAIN c : c[x].exp > t} |-> c[k]]

\* ------------------------------------------------------------ user store
bcryptHash(pw) == <<"bcrypt", pw>>

\* variant: every password matches
bcryptCompare_any(pw, hash) == TRUE

bcryptCompare(pw, hash) == hash = bcryptHash(pw)

UserIds == DOMAIN users

\* variant: the email lookup finds nobody
EmailExists_never(e) == FALSE

\* UserService.exists({ email })
EmailExists(e) == \E u \in UserIds : users[u].email = e

\* const { hashedPassword, ...result } = user.toJSON()
registerResult(doc) == [f \in DOMAIN doc \ {"hashedPassword"} |-> doc[f]]

\* last: operation, outcome, the jtis decoded from its two token arguments
\* (0 where there is none), whether a fault was injected, and whether the
\* presented refresh token had been consumed before
Idle == [op |-> "none", res |-> "none", a |-> 0, r |-> 0, fault |-> FALSE,
         replay |-> FALSE, fresh |-> FALSE]

Done(op, res, a, r, fault, replay) ==
  [op |-> op, res |-> res, a |-> a, r |-> r, fault |-> fault,
   replay |-> replay, fresh |-> FALSE]

\* the outcome of a refreshAccessToken call, as its caller sees it
Refreshed(res, call) ==
  [op |-> "refresh", res |-> res, a |-> 0, r |-> 0,
   fault |-> call.faulted, replay |-> call.replay, fresh |-> call.fresh]

Init ==
  /\ now = 1
  /\ users = <<>>
  /\ tokens = <<>>
  /\ logins = 0
  /\ cache = [k \in {} |-> Idle]
  /\ calls = EmptyBag
  /\ last = Idle
  /\ consumed = {}
  /\ reused = {}
  /\ raced = {}
  /\ started = {}
  /\ blRefreshed = {}
  /\ blLoggedOut = {}
  /\ stale = {}
  /\ loggingConfig = [nodeEnv |-> "none"]
  /\ loggerContext = "Application"
  /\ logs = <<>>
  /\ fbLogins = [id \in FacebookIds |-> [resolved |-> {}, created |-> {}]]

\* the clock advances by one second; expired keys leave the cache
Tick ==
  /\ now < MaxTime
  /\ now' = now + 1
  /\ cache' = Expire(cache, now + 1)
  /\ last' = Idle
  /\ UNCHANGED <<logState, fbLogins, logins, users, tokens, calls, alHist, blHist>>

\* AuthService.register (identical in every revision); last keeps the
\* email of the request and, on success, the object handed back
Register(email, password) ==
  /\ IF EmailExists(email)
     THEN /\ last' = Done("register", "Conflict", 0, 0, FALSE, FALSE)
                        @@ [email |-> email]
          /\ UNCHANGED users
     ELSE LET doc == [fullName |-> FullName, email |-> email,
                      hashedPassword |-> bcryptHash(password),
                      roles |-> DefaultRoles]
          IN /\ users' = Append(users, doc)
             /\ last' = Done("register", "ok", 0, 0, FALSE, FALSE)
                           @@ [email |-> email, data |-> registerResult(doc)]
  /\ UNCHANGED <<logState, fbLogins, logins, now, tokens, cache, calls, alHist, blHist>>

\* ---------------------------------------------- allow-list: TokenService
\* what jsonwebtoken makes of expiresIn: '<n><unit>' (vercel/ms), in seconds
JwtLifetime(n, unit) ==
  CASE unit = "d" -> n * 24 * 60 * 60
    [] unit = "h" -> n * 60 * 60
    [] unit = "m" -> n * 60
    [] OTHER -> n

\* TokenService.storeRefreshToken: the TTL it derives from the same setting
ttlInSeconds(n, unit) ==
  IF unit = "d" THEN n * 24 * 60 * 60
  ELSE IF unit = "h" THEN n * 60 * 60
  ELSE IF unit = "m" THEN n * 60
  ELSE n

\* variant: the allow-list record is stored without a TTL argument
storeRefreshToken_default(c, jti, userId, t) ==
  RedisSet(c, Key("refresh", jti), Str(Plain(userId)), 0, t)

storeRefreshToken(c, jti, userId, t) ==
  RedisSet(c, Key("refresh", jti), Str(Plain(userId)),
           ttlInSeconds(RefreshTtl, RefreshUnit), t)

\* variant: the allow-list is not consulted
validateRefreshToken_unchecked(c, jti, fault) == TRUE

\* TokenService.validateRefreshToken: a cache error reads as "not valid"
validateRefreshToken(c, jti, fault) ==
  IF fault THEN FALSE ELSE RedisExists(c, Key("refresh", jti))

\* TokenService.validateAccessToken: a cache error reads as "not valid"
validateAccessToken(c, jti, fault) ==
  IF fault THEN FALSE ELSE ~RedisExists(c, Key("blacklist", jti))

\* variant: the presented record is left in the allow-list
revokeRefreshToken_kept(c, jti) == c

\* TokenService.revokeRefreshToken
revokeRefreshToken(c, jti) == RedisDelete(c, Key("refresh", jti))

Max(a, b) == IF a >= b THEN a ELSE b

\* variant: the blacklist record is written with a one-second TTL
revokeAccessToken_short(c, jti, exp, t) ==
  RedisSet(c, Key("blacklist", jti), Str(JsonStringify(Bool(TRUE))), 1, t)

\* TokenService.revokeAccessToken
revokeAccessToken(c, jti, exp, t) ==
  RedisSet(c, Key("blacklist", jti), Str(JsonStringify(Bool(TRUE))),
           Max(exp - t, 0), t)

CanMint == Len(tokens) + 2 <= 2 * MaxPairs

\* the pair TokenService.generateTokens signs for userId at time t
ALPair(userId, fullName, roles, t) ==
  << JwtSign(Len(tokens) + 1, userId, "access", AccessTtl, t, "AL")
       @@ [fullName |-> fullName, roles |-> roles],
     JwtSign(Len(tokens) + 2, userId, "refresh",
             JwtLifetime(RefreshTtl, RefreshUnit), t, "AL") >>

GenFaults == {"none", "sign", "store"}

\* variant: the allow-list record is written before the tokens are signed
generateTokens_partial(userId, fullName, roles, fault) ==
  IF fault = "store" THEN UNCHANGED <<tokens, cache>>
  ELSE /\ cache' = storeRefreshToken(cache, Len(tokens) + 2, userId, now)
       /\ tokens' = IF fault = "none" THEN tokens \o ALPair(userId, fullName, roles, now)
                    ELSE tokens

\* TokenService.generateTokens: sign both, then admit the refresh jti.
\* Any failure is rethrown as a plain Error; nothing is stored then.
generateTokens(userId, fullName, roles, fault) ==
  IF fault = "none"
  THEN /\ tokens' = tokens \o ALPair(userId, fullName, roles, now)
       /\ cache' = storeRefreshToken(cache, Len(tokens) + 2, userId, now)
  ELSE UNCHANGED <<tokens, cache>>

genResult(fault) == IF fault = "none" THEN "ok" ELSE "Error"

\* AuthService.login (allow-list): req.user was authenticated by the guard
ALLogin(u, fault) ==
  /\ u \in UserIds
  /\ CanMint
  /\ logins < MaxLogins
  /\ logins' = logins + 1
  /\ generateTokens(u, users[u].fullName, users[u].roles, fault)
  /\ last' = Done("alLogin", genResult(fault), 0, 0, FALSE, FALSE)
  /\ UNCHANGED <<logState, fbLogins, now, users, calls, alHist, blHist>>

Genuine(tok) == \E i \in DOMAIN tokens : tokens[i] = tok

InFlight == BagToSet(calls)
Enter(call) == calls (+) SetToBag({call})
Leave(call) == calls (-) SetToBag({call})

\* refreshAccessToken up to its first two awaits: verify, allow-list check.
\* The call record keeps the step it is at, the token it presented and
\* what was true of that token when the call started.
RefreshStart(tok, fault) ==
  /\ BagCardinality(calls) < MaxCalls
  /\ LET verified == JwtVerify(tok, "refresh", now)
         isValid == verified /\ validateRefreshToken(cache, tok.jti, fault)
         call == [pc |-> "revoke", tok |-> tok,
                  fresh |-> /\ Genuine(tok) /\ tok.by = "AL"
                            /\ tok.kind = "refresh"
                            /\ now < tok.exp /\ tok.jti \notin started,
                  replay |-> Genuine(tok) /\ tok.jti \in consumed,
                  faulted |-> verified /\ fault]
     IN /\ IF isValid
           THEN /\ calls' = Enter(call)
                /\ last' = Idle
                /\ raced' = IF \E d \in InFlight :
                                  d.pc = "revoke" /\ d.tok = tok
                            THEN raced \cup {tok.jti} ELSE raced
           ELSE /\ last' = Refreshed("Unauthorized", call)
                /\ UNCHANGED <<calls, raced>>
        /\ started' = IF Genuine(tok) /\ tok.kind = "refresh"
                      THEN started \cup {tok.jti} ELSE started
  /\ UNCHANGED <<logState, fbLogins, logins, now, users, tokens, cache, consumed, reused, blHist>>

\* refreshAccessToken: await revokeRefreshToken; its Error is caught and
\* rethrown as Unauthorized
RefreshRevoke(call, fault) ==
  /\ call \in InFlight
  /\ call.pc = "revoke"
  /\ IF fault
     THEN /\ calls' = Leave(call)
          /\ last' = Refreshed("Unauthorized", [call EXCEPT !.faulted = TRUE])
          /\ UNCHANGED cache
     ELSE /\ cache' = revokeRefreshToken(cache, call.tok.jti)
          /\ calls' = Enter([call EXCEPT !.pc = "mint"]) (-) SetToBag({call})
          /\ last' = Idle
  /\ UNCHANGED <<logState, fbLogins, logins, now, users, tokens, alHist, blHist>>

\* variant: a failed minting puts the presented token back on the allow-list
RefreshMint_readmit(call, fault) ==
  /\ call \in InFlight
  /\ call.pc = "mint"
  /\ CanMint
  /\ IF fault = "none"
     THEN generateTokens(call.tok.sub, "User", <<"USER">>, fault)
     ELSE /\ cache' = storeRefreshToken(cache, call.tok.jti, call.tok.sub, now)
          /\ UNCHANGED tokens
  /\ calls' = Leave(call)
  /\ last' = Refreshed(genResult(fault),
                       [call EXCEPT !.faulted = @ \/ fault # "none"])
  /\ consumed' = IF fault = "none" THEN consumed \cup {call.tok.jti}
                 ELSE consumed
  /\ reused' = IF fault = "none" /\ call.tok.jti \in consumed
               THEN reused \cup {call.tok.jti} ELSE reused
  /\ UNCHANGED <<logState, fbLogins, logins, now, users, started, raced, blHist>>

\* refreshAccessToken: return this.generateTokens(userId, fullName, roles)
\* with fullName = 'User' and roles = [SystemRole.USER] -- returned without
\* await, so a rejection leaves the try block and reaches the caller as is
RefreshMint(call, fault) ==
  /\ call \in InFlight
  /\ call.pc = "mint"
  /\ CanMint
  /\ generateTokens(call.tok.sub, "User", <<"USER">>, fault)
  /\ calls' = Leave(call)
  /\ last' = Refreshed(genResult(fault),
                       [call EXCEPT !.faulted = @ \/ fault # "none"])
  /\ consumed' = IF fault = "none" THEN consumed \cup {call.tok.jti}
                 ELSE consumed
  /\ reused' = IF fault = "none" /\ call.tok.jti \in consumed
               THEN reused \cup {call.tok.jti} ELSE reused
  /\ UNCHANGED <<logState, fbLogins, logins, now, users, started, raced, blHist>>

\* passport-jwt (secretOrKey JWT_ACCESS_SECRET, ignoreExpiration false)
\* followed by JwtStrategy.validate
JwtStrategyAccepts(c, tok, t, fault) ==
  /\ JwtVerify(tok, "access", t)
  /\ tok.sub # 0 /\ tok.jti # 0
  /\ validateAccessToken(c, tok.jti, fault)

\* a protected request carrying tok as bearer token
JwtRequest(tok, fault) ==
  /\ last' = Done("request",
                  IF JwtStrategyAccepts(cache, tok, now, fault)
                  THEN "ok" ELSE "Unauthorized", 0, 0, FALSE, FALSE)
  /\ UNCHANGED <<logState, fbLogins, logins, now, users, tokens, cache, calls, alHist, blHist>>

LogoutFaults == {"none", "delete", "set"}

\* TokenService.logout(refreshToken): everything thrown is swallowed
tokenServiceLogout(c, r, t, fault) ==
  IF ~JwtVerifyIgnoreExp(r, "refresh") \/ fault = "delete" THEN c
  ELSE IF r.exp > t /\ fault # "set"
       THEN revokeAccessToken(revokeRefreshToken(c, r.jti), r.jti, r.exp, t)
       ELSE revokeRefreshToken(c, r.jti)

\* POST /auth/logout: the route is guarded by JwtStrategy; the controller
\* calls authService.logout(payload.refreshToken, accessToken) and
\* AuthService.logout(refreshToken) passes only the refresh token on
\* (a request whose bearer token the guard rejects is a JwtRequest)
ALLogout(a, r, fault) ==
  /\ JwtStrategyAccepts(cache, a, now, FALSE)
  /\ cache' = tokenServiceLogout(cache, r, now, fault)
  /\ started' = IF Genuine(r) /\ r.kind = "refresh"
                THEN started \cup {r.jti} ELSE started
  /\ last' = Done("alLogout", "ok", a.jti,
                  IF Genuine(r) /\ r.kind = "refresh" THEN r.jti ELSE 0,
                  fault # "none", FALSE)
  /\ UNCHANGED <<logState, fbLogins, logins, now, users, tokens, calls, consumed, reused, raced, blHist>>

\* ------------------------------------------- blacklist: AuthService
\* variant: the blacklist record is written with a one-second TTL
revokeToken_short(c, jti, exp, t) ==
  RedisSet(c, Key("token_blacklist", jti), Str(JsonStringify(Bool(TRUE))),
           1, t)

\* AuthService.revokeToken (blacklist revision)
revokeToken(c, jti, exp, t) ==
  RedisSet(c, Key("token_blacklist", jti), Str(JsonStringify(Bool(TRUE))),
           Max(exp - t, 0), t)

\* variant: a token issued in the second of the password change is stale
IssuedBefore_inclusive(iat, tokenIatAvailable) ==
  /\ tokenIatAvailable.type = "number"
  /\ tokenIatAvailable.num # 0
  /\ iat <= tokenIatAvailable.num

\* tokenIatAvailable && payload.iat < tokenIatAvailable
IssuedBefore(iat, tokenIatAvailable) ==
  /\ tokenIatAvailable.type = "number"
  /\ tokenIatAvailable.num # 0
  /\ iat < tokenIatAvailable.num

\* variant: a cache error lets the token through
validateToken_open(c, tok, fault) ==
  IF ~JwtDecodable(tok) \/ tok.jti = 0 \/ tok.sub = 0 THEN FALSE
  ELSE fault \/ ~RedisExists(c, Key("token_blacklist", tok.jti))

\* AuthService.validateToken: decode only; a cache error is caught and
\* reads as "not valid"
validateToken(c, tok, fault) ==
  IF ~JwtDecodable(tok) \/ tok.jti = 0 \/ tok.sub = 0 THEN FALSE
  ELSE IF fault THEN FALSE
  ELSE IF RedisExists(c, Key("token_blacklist", tok.jti)) THEN FALSE
  ELSE IF tok.iat # 0
          /\ IssuedBefore(tok.iat,
                          RedisGet(c, Key("token_iat_available", tok.sub)))
       THEN FALSE
  ELSE TRUE

\* the pair the private AuthService.generateTokens signs
BLPair(userId, t) ==
  << JwtSign(Len(tokens) + 1, userId, "access", AccessTtl, t, "BL"),
     JwtSign(Len(tokens) + 2, userId, "refresh",
             JwtLifetime(RefreshTtl, RefreshUnit), t, "BL") >>

\* AuthService.login (blacklist): nothing but signing; a signing error is
\* rethrown by generateTokens as Unauthorized
BLLogin(u, fault) ==
  /\ u \in UserIds
  /\ CanMint
  /\ logins < MaxLogins
  /\ logins' = logins + 1
  /\ tokens' = IF fault THEN tokens ELSE tokens \o BLPair(u, now)
  /\ last' = Done("blLogin", IF fault THEN "Unauthorized" ELSE "ok",
                  0, 0, FALSE, FALSE)
  /\ UNCHANGED <<logState, fbLogins, now, users, cache, calls, alHist, blHist>>

BLRefreshFaults == {"none", "db", "cache", "sign"}

\* AuthService.refreshToken (blacklist): verify, look the user up, blacklist
\* the presented jti, mint. Every failure surfaces as Unauthorized.
BLRefresh(tok, fault) ==
  /\ LET verified == JwtVerify(tok, "refresh", now)
         found == verified /\ fault # "db" /\ tok.sub \in UserIds
         revoked == found /\ fault # "cache"
         minted == revoked /\ fault # "sign"
     IN /\ minted => CanMint
        /\ cache' = IF revoked THEN revokeToken(cache, tok.jti, tok.exp, now)
                    ELSE cache
        /\ tokens' = IF minted THEN tokens \o BLPair(tok.sub, now)
                     ELSE tokens
        /\ blRefreshed' = IF minted THEN blRefreshed \cup {tok.jti}
                          ELSE blRefreshed
        /\ last' = Done("blRefresh",
                        IF minted THEN "ok" ELSE "Unauthorized", 0,
                        IF Genuine(tok) THEN tok.jti ELSE 0,
                        verified /\ fault # "none",
                        Genuine(tok) /\ tok.jti \in blRefreshed)
  /\ UNCHANGED <<logState, fbLogins, logins, now, users, calls, alHist, blLoggedOut, stale>>

BLLogoutFaults == {"none", "first", "second"}

\* AuthService.logout (blacklist): both payloads are decoded, then the two
\* revokeToken calls are started in array order (each reaches its Redis
\* command before the next array element is evaluated) and awaited together.
\* Reading .jti of a null payload throws a TypeError on the spot.
BLLogout(a, r, fault) ==
  /\ LET first == JwtDecodable(a) /\ fault # "first"
         second == JwtDecodable(a) /\ JwtDecodable(r) /\ fault # "second"
         c1 == IF first THEN revokeToken(cache, a.jti, a.exp, now) ELSE cache
         c2 == IF second THEN revokeToken(c1, r.jti, r.exp, now) ELSE c1
         res == IF ~JwtDecodable(a) \/ ~JwtDecodable(r) THEN "TypeError"
                ELSE IF fault # "none" THEN "Error" ELSE "ok"
     IN /\ cache' = c2
        /\ blLoggedOut' = IF res = "ok"
                          THEN blLoggedOut \cup {a.jti, r.jti}
                          ELSE blLoggedOut
        /\ last' = Done("blLogout", res, a.jti, r.jti,
                        \/ JwtDecodable(a) /\ fault = "first"
                        \/ JwtDecodable(a) /\ JwtDecodable(r)
                             /\ fault = "second",
                        FALSE)
  /\ UNCHANGED <<logState, fbLogins, logins, now, users, tokens, calls, alHist, blRefreshed, stale>>

\* AuthService.changePassword
changePassword(userId, currentPassword, newPassword, fault) ==
  /\ IF userId \notin UserIds
     THEN /\ last' = Done("changePassword", "NotFound", 0, 0, FALSE, FALSE)
          /\ UNCHANGED <<users, cache, stale>>
     ELSE IF ~bcryptCompare(currentPassword, users[userId].hashedPassword)
     THEN /\ last' = Done("changePassword", "Unauthorized", 0, 0, FALSE,
                          FALSE)
          /\ UNCHANGED <<users, cache, stale>>
     ELSE /\ users' = [users EXCEPT ![userId].hashedPassword =
                                       bcryptHash(newPassword)]
          /\ IF fault
             THEN /\ last' = Done("changePassword", "Error", 0, 0, TRUE,
                                  FALSE)
                  /\ UNCHANGED <<cache, stale>>
             ELSE /\ cache' = RedisSet(cache,
                                       Key("token_iat_available", userId),
                                       Num(now), AccessTtl, now)
                  /\ stale' = stale \cup
                       {tokens[i].jti : i \in {j \in DOMAIN tokens :
                                                 tokens[j].sub = userId}}
                  /\ last' = Done("changePassword", "ok", 0, 0, FALSE, FALSE)
  /\ UNCHANGED <<logState, fbLogins, logins, now, tokens, calls, alHist, blRefreshed, blLoggedOut>>

\* variant: a token found invalid is blacklisted on the way out
ValidateToken_caching(tok, fault) ==
  /\ last' = Done("validate",
                  IF validateToken(cache, tok, fault) THEN "valid"
                  ELSE "invalid", tok.jti, 0, fault, FALSE)
  /\ cache' = IF validateToken(cache, tok, fault) THEN cache
              ELSE revokeToken(cache, tok.jti, tok.exp, now)
  /\ UNCHANGED <<logState, fbLogins, logins, now, users, tokens, calls, alHist, blHist>>

\* a caller asks AuthService.validateToken about a token; last keeps the
\* jti the token decodes to (0 when it has none) and whether a cache lookup
\* failed during the call
ValidateToken(tok, fault) ==
  /\ last' = Done("validate",
                  IF validateToken(cache, tok, fault) THEN "valid"
                  ELSE "invalid", tok.jti, 0, fault, FALSE)
  /\ UNCHANGED <<logState, fbLogins, logins, now, users, tokens, cache, calls, alHist, blHist>>

\* ------------------------------------------------------ SystemRolesGuard
SystemRole == {"ADMIN", "USER"}

\* role arrays, as @SystemRoles(...) and the token payload carry them
RoleArrays == UNION {[1..n -> SystemRole] : n \in 0..MaxRoles}

\* reflector.getAllAndOverride(ROLES_KEY, ...): undefined when no handler
\* or class sets the metadata
RequiredRoles ==
  {[defined |-> FALSE, roles |-> <<>>]} \cup
  {[defined |-> TRUE, roles |-> r] : r \in RoleArrays}

\* request.user: absent, present without a roles property, or with one
RequestUsers ==
  {[present |-> FALSE, hasRoles |-> FALSE, roles |-> <<>>],
   [present |-> TRUE, hasRoles |-> FALSE, roles |-> <<>>]} \cup
  {[present |-> TRUE, hasRoles |-> TRUE, roles |-> r] : r \in RoleArrays}

\* Array.prototype.includes
includes(array, x) == \E i \in DOMAIN array : array[i] = x

\* variant: the user must hold every required role
canActivate_every(requiredRoles, user) ==
  IF ~requiredRoles.defined \/ Len(requiredRoles.roles) = 0 THEN "allow"
  ELSE IF ~user.present THEN "Forbidden"
  ELSE IF \A i \in DOMAIN requiredRoles.roles :
            user.hasRoles /\ includes(user.roles, requiredRoles.roles[i])
       THEN "allow"
  ELSE "Forbidden"

\* SystemRolesGuard.canActivate: "allow" for return true, "Forbidden" for
\* a thrown ForbiddenException
canActivate(requiredRoles, user) ==
  IF ~requiredRoles.defined \/ Len(requiredRoles.roles) = 0 THEN "allow"
  ELSE IF ~user.present THEN "Forbidden"
  ELSE IF \E i \in DOMAIN requiredRoles.roles :
            user.hasRoles /\ includes(user.roles, requiredRoles.roles[i])
       THEN "allow"
  ELSE "Forbidden"

\* the guard runs for a request
CanActivate(requiredRoles, user) ==
  /\ last' = [op |-> "canActivate", res |-> canActivate(requiredRoles, user),
              requiredRoles |-> requiredRoles, user |-> user]
  /\ UNCHANGED <<logState, fbLogins, logins, now, users, tokens, cache, calls, alHist, blHist>>

\* ------------------------------------------- RedisService used directly
\* JSON-serialisable values a caller may store: strings (plain, empty, and
\* strings whose characters read as JSON: "1", "true", "null"), numbers,
\* booleans, an object, arrays
StoredValues ==
  {Str(Plain("hello")), Str(EmptyText), Str(JsonStringify(Num(1))),
   Str(JsonStringify(Bool(TRUE))), Str(JsonStringify(JsNull)),
   Num(0), Num(1), Bool(TRUE), Bool(FALSE),
   Obj([id |-> Num(1)]), Arr(<<>>), Arr(<<Num(1)>>)}

StoredKeys == {Key("k", 1)}

\* the ttl argument: 0 stands for "not given"
StoredTtls == {0, AccessTtl}

\* redisService.set(key, value, ttl)
RedisServiceSet(key, value, ttl) ==
  /\ cache' = RedisSet(cache, key, value, ttl, now)
  /\ last' = [op |-> "set", res |-> "OK", key |-> key, value |-> value]
  /\ UNCHANGED <<logState, fbLogins, logins, now, users, tokens, calls, alHist, blHist>>

\* redisService.get(key)
RedisServiceGet(key) ==
  /\ last' = [op |-> "get", res |-> "ok", key |-> key,
              value |-> RedisGet(cache, key)]
  /\ UNCHANGED <<logState, fbLogins, logins, now, users, tokens, cache, calls, alHist, blHist>>

\* -------------------------------------------------- ResponseInterceptor
Undefined == [type |-> "undefined"]

\* a Mongoose document: an object with a _doc property
Document(id) == [type |-> "document", doc |-> [id |-> Num(id)]]

In(key, value) == value.type = "object" /\ key \in DOMAIN value.props

\* x || fallback, for numbers
OrElse(x, fallback) == IF x = 0 THEN fallback ELSE x

\* what userModel.paginate hands back (0 stands for an absent number)
PaginateResults ==
  {[docs |-> [i \in 1..n |-> Document(i)], totalDocs |-> t, limit |-> l,
    totalPages |-> tp, page |-> pg] :
     n \in 0..MaxDocs, t \in 0..MaxDocs, l \in {0, MaxDocs},
     tp \in {0, 1}, pg \in 0..MaxDocs}

toPaginatedResponse(result) ==
  Obj([items |-> Arr(result.docs),
       meta |-> Obj([totalItems |-> Num(OrElse(result.totalDocs, 0)),
                     itemCount |-> Num(OrElse(Len(result.docs), 0)),
                     itemsPerPage |-> Num(OrElse(result.limit, 10)),
                     totalPages |-> Num(OrElse(result.totalPages, 0)),
                     currentPage |-> Num(OrElse(result.page, 1))])])

\* UserController.findUsers: the paginated result goes under "data"
findUsers(paginationResult) ==
  Obj([message |-> Str(Plain("Users retrieved successfully")),
       data |-> toPaginatedResponse(paginationResult)])

RECURSIVE transformToPlain(_)
transformToPlain(data) ==
  IF data.type \in {"null", "undefined"} THEN JsNull
  ELSE IF data.type = "array"
       THEN Arr([i \in DOMAIN data.elems |-> transformToPlain(data.elems[i])])
  ELSE IF data.type = "document" THEN Obj(data.doc)
  ELSE IF data.type = "object"
       THEN Obj([k \in DOMAIN data.props |-> transformToPlain(data.props[k])])
  ELSE data

isValidPaginationMeta(obj) ==
  /\ obj.type = "object"
  /\ \A k \in {"totalItems", "itemCount", "itemsPerPage", "totalPages",
                "currentPage"} :
       k \in DOMAIN obj.props /\ obj.props[k].type = "number"

getMessageForStatusCode(statusCode) ==
  CASE statusCode = 200 -> "Success"
    [] statusCode = 201 -> "Created successfully"
    [] statusCode = 202 -> "Accepted"
    [] statusCode = 204 -> "No content"
    [] statusCode = 400 -> "Bad request"
    [] statusCode = 401 -> "Unauthorized"
    [] statusCode = 403 -> "Forbidden"
    [] statusCode = 404 -> "Not found"
    [] statusCode = 500 -> "Internal server error"
    [] OTHER -> "Success"

\* ResponseInterceptor.intercept, the function mapped over the handler's
\* result; responseStatus is response.statusCode (0 when it is not set)
intercept(responseStatus, data) ==
  LET statusCode == OrElse(responseStatus, 200)
      standardResponse ==
        [statusCode |-> statusCode,
         message |-> getMessageForStatusCode(statusCode),
         data |-> JsNull]
      plainData == IF data.type \notin {"null", "undefined"}
                   THEN transformToPlain(data) ELSE JsNull
  IN IF plainData.type = "null" THEN standardResponse
     ELSE IF In("items", plainData) /\ In("meta", plainData)
     THEN LET meta == plainData.props.meta
              withItems == [standardResponse EXCEPT
                              !.data = plainData.props.items]
          IN IF isValidPaginationMeta(meta)
             THEN withItems @@
                  [pagination |->
                     Obj([totalItems |-> meta.props.totalItems,
                          itemCount |-> meta.props.itemCount,
                          itemsPerPage |-> meta.props.itemsPerPage,
                          totalPages |-> meta.props.totalPages,
                          currentPage |-> meta.props.currentPage])]
             ELSE withItems
     ELSE [standardResponse EXCEPT !.data = plainData]

StatusCodes == {0, 200, 201}

\* what a handler may return: nothing, primitives, plain objects, arrays,
\* a document, a paginated result, and items with a meta that lacks
\* itemCount
HandlerResults ==
  {JsNull, Undefined, Num(1), Bool(TRUE), Str(Plain("pong")), Document(1),
   Obj([id |-> Num(1)]), Arr(<<Obj([id |-> Num(1)])>>),
   Obj([items |-> Arr(<<Obj([id |-> Num(1)])>>),
        meta |-> Obj([totalItems |-> Num(1), itemsPerPage |-> Num(10),
                      totalPages |-> Num(1), currentPage |-> Num(1)])])}
  \cup {toPaginatedResponse(r) : r \in PaginateResults}

\* a handler returns data and the interceptor wraps it
Respond(responseStatus, data) ==
  /\ last' = [op |-> "respond", res |-> "ok", handler |-> data,
              response |-> intercept(responseStatus, data)]
  /\ UNCHANGED <<logState, fbLogins, logins, now, users, tokens, cache, calls, alHist, blHist>>

\* GET /users
FindUsers(paginationResult, responseStatus) ==
  /\ last' = [op |-> "findUsers", res |-> "ok",
              handler |-> findUsers(paginationResult),
              paginated |-> toPaginatedResponse(paginationResult),
              response |-> intercept(responseStatus,
                                     findUsers(paginationResult))]
  /\ UNCHANGED <<logState, fbLogins, logins, now, users, tokens, cache, calls, alHist, blHist>>

\* --------------------------------------------------------------- logging
LogLevel == {"error", "warn", "info", "http", "verbose", "debug", "silly"}

\* winston's npm levels: the lower the number, the more severe
LevelPriority(level) ==
  CASE level = "error" -> 0
    [] level = "warn" -> 1
    [] level = "info" -> 2
    [] level = "http" -> 3
    [] level = "verbose" -> 4
    [] level = "debug" -> 5
    [] level = "silly" -> 6

\* getLoggingConfig(nodeEnv)
getLoggingConfig(nodeEnv) ==
  LET isProd == nodeEnv = "production"
  IN [console |-> [level |-> "info", prettyPrint |-> ~isProd,
                   colorize |-> TRUE],
      file |-> [level |-> "info", enabled |-> TRUE,
                maxSize |-> IF isProd THEN "10m" ELSE "5m",
                maxFiles |-> IF isProd THEN "14d" ELSE "7d",
                dirname |-> "logs"]]

\* NODE_ENV as the process may have it ("" when unset)
NodeEnvs == {"", "development", "production", "test"}

\* LoggingService constructor -> initializeLogger
InitializeLogger(env) ==
  /\ loggingConfig.nodeEnv = "none"
  /\ LET nodeEnv == IF env = "" THEN "development" ELSE env
     IN loggingConfig' = [nodeEnv |-> nodeEnv,
                          config |-> getLoggingConfig(nodeEnv)]
  /\ last' = Idle
  /\ UNCHANGED <<loggerContext, logs, fbLogins, logins, now, users, tokens, cache,
                 calls, alHist, blHist>>

\* a transport writes an entry when the entry is at least as severe as the
\* transport's level
Writes(transportLevel, level) ==
  LevelPriority(level) <= LevelPriority(transportLevel)

\* loggingService.<level>(message, meta): the entry carries the service's
\* current context; req names the request on whose behalf the call is made
LogEntry(context, req, level, message, meta) ==
  [req |-> req, context |-> context, level |-> level, message |-> message,
   meta |-> meta,
   console |-> Writes(loggingConfig.config.console.level, level),
   file |-> /\ loggingConfig.config.file.enabled
            /\ Writes(loggingConfig.config.file.level, level)]

sensitiveFields ==
  {"password", "token", "refreshToken", "refresh_token", "accessToken",
   "access_token", "secret", "authorization", "api_key", "apiKey",
   "private_key", "privateKey"}

Redacted == Str(Plain("***REDACTED***"))

\* sanitizeBody's inner sanitizeObject
RECURSIVE sanitizeObject(_)
sanitizeObject(obj) ==
  IF obj.type = "array"
  THEN Arr([i \in DOMAIN obj.elems |-> sanitizeObject(obj.elems[i])])
  ELSE IF obj.type = "object"
  THEN Obj([key \in DOMAIN obj.props |->
              IF key \in sensitiveFields THEN Redacted
              ELSE sanitizeObject(obj.props[key])])
  ELSE obj

\* LoggingInterceptor.sanitizeBody
sanitizeBody(body) ==
  IF body.type \in {"null", "undefined"} THEN Obj(<<>>)
  ELSE sanitizeObject(body)

\* the routes requests arrive on, with the body each one carries
Routes ==
  {[context |-> "AuthController:register",
    body |-> Obj([email |-> Str(Plain("a@x.com")), password |-> Str(Plain(p)),
                  fullName |-> Str(Plain("A"))])] : p \in Passwords}
  \cup
  {[context |-> "AuthController:changePassword",
    body |-> Obj([currentPassword |-> Str(Plain(p)),
                  newPassword |-> Str(Plain(q))])] :
     p \in Passwords, q \in Passwords}
  \cup
  {[context |-> "UserController:getProfile", body |-> Undefined]}

\* LoggingInterceptor.intercept, the synchronous part: set the shared
\* context, log the request, hand over to the handler
InterceptRequest(id, route) ==
  /\ loggingConfig.nodeEnv # "none"
  /\ Len(logs) = 0 \/ \A i \in DOMAIN logs : logs[i].req # id
  /\ id \in 1..MaxRequests
  /\ loggerContext' = route.context
  /\ logs' = logs \o
       << LogEntry(route.context, id, "info", "Request started", JsNull),
          LogEntry(route.context, id, "debug", "Request details", JsNull),
          LogEntry(route.context, id, "verbose", "Request body",
                   sanitizeBody(route.body)) >>
  /\ calls' = Enter([pc |-> "handle", req |-> id, own |-> route.context])
  /\ last' = Idle
  /\ UNCHANGED <<loggingConfig, fbLogins, logins, now, users, tokens, cache, alHist,
                 blHist>>

Outcomes == {"ok", "slow", "status400", "error"}

\* LoggingInterceptor.intercept, the tap callbacks: they run when the
\* handler's observable emits or fails, with whatever context the service
\* holds by then
InterceptResponse(call, outcome) ==
  /\ call \in InFlight
  /\ call.pc = "handle"
  /\ calls' = Leave(call)
  /\ logs' = logs \o
       (IF outcome = "error"
        THEN << LogEntry(loggerContext, call.req, "error", "Error", JsNull),
                LogEntry(loggerContext, call.req, "debug", "Error details",
                         JsNull) >>
        ELSE << LogEntry(loggerContext, call.req,
                         IF outcome = "status400" THEN "warn" ELSE "info",
                         IF outcome = "status400" THEN "Response"
                         ELSE "Response completed", JsNull),
                LogEntry(loggerContext, call.req, "debug", "Response data",
                         JsNull),
                IF outcome = "slow"
                THEN LogEntry(loggerContext, call.req, "warn",
                              "Slow response detected", JsNull)
                ELSE LogEntry(loggerContext, call.req, "verbose",
                              "Performance metrics", JsNull) >>)
  /\ last' = Idle
  /\ UNCHANGED <<loggingConfig, loggerContext, fbLogins, logins, now, users, tokens,
                 cache, alHist, blHist>>

\* ------------------------------------------------------ specifications
\* the allow-list revision, refresh rotation
NextAL ==
  \/ Tick
  \/ \E e \in Emails : Register(e, InitialPassword)
  \/ \E u \in UserIds, f \in GenFaults : ALLogin(u, f)
  \/ \E t \in Presentable, f \in BOOLEAN : RefreshStart(t, f)
  \/ \E c \in InFlight, f \in BOOLEAN : RefreshRevoke(c, f)
  \/ \E c \in InFlight, f \in GenFaults : RefreshMint(c, f)

SpecAL == Init /\ [][NextAL]_vars

\* the guarded routes of the allow-list revision
NextGate ==
  \/ Tick
  \/ \E e \in Emails : Register(e, InitialPassword)
  \/ \E u \in UserIds, f \in GenFaults : ALLogin(u, f)
  \/ \E t \in Presentable, f \in BOOLEAN : JwtRequest(t, f)
  \/ \E a \in Presentable, r \in Presentable, f \in LogoutFaults :
       ALLogout(a, r, f)
  \/ \E u \in 1..(Len(users) + 1), p \in Passwords, q \in Passwords,
        f \in BOOLEAN : changePassword(u, p, q, f)

SpecGate == Init /\ [][NextGate]_vars

\* the blacklist revision, refresh and password change
NextBL ==
  \/ Tick
  \/ \E e \in Emails, p \in Passwords : Register(e, p)
  \/ \E u \in UserIds, f \in BOOLEAN : BLLogin(u, f)
  \/ \E t \in Presentable, f \in BLRefreshFaults : BLRefresh(t, f)
  \/ \E u \in 1..(Len(users) + 1), p \in Passwords, q \in Passwords,
        f \in BOOLEAN : changePassword(u, p, q, f)
  \/ \E t \in Presentable, f \in BOOLEAN : ValidateToken(t, f)

SpecBL == Init /\ [][NextBL]_vars

\* the blacklist revision, logout side
NextBLLogout ==
  \/ Tick
  \/ \E e \in Emails : Register(e, InitialPassword)
  \/ \E u \in UserIds, f \in BOOLEAN : BLLogin(u, f)
  \/ \E a \in Presentable, r \in Presentable, f \in BLLogoutFaults :
       BLLogout(a, r, f)
  \/ \E t \in Presentable, f \in BOOLEAN : ValidateToken(t, f)

SpecBLLogout == Init /\ [][NextBLLogout]_vars

\* login in both revisions
NextLogin ==
  \/ Tick
  \/ \E e \in Emails, p \in Passwords : Register(e, p)
  \/ \E u \in UserIds, f \in GenFaults : ALLogin(u, f)
  \/ \E u \in UserIds, f \in BOOLEAN : BLLogin(u, f)
  \/ \E t \in Presentable, f \in BOOLEAN : JwtRequest(t, f)
  \/ \E t \in Presentable, f \in BOOLEAN : ValidateToken(t, f)

SpecLogin == Init /\ [][NextLogin]_vars

\* the role guard
NextGuard ==
  \E r \in RequiredRoles, u \in RequestUsers : CanActivate(r, u)

SpecGuard == Init /\ [][NextGuard]_vars

\* the response envelope
NextHttp ==
  \/ \E s \in StatusCodes, d \in HandlerResults : Respond(s, d)
  \/ \E r \in PaginateResults, s \in StatusCodes : FindUsers(r, s)

SpecHttp == Init /\ [][NextHttp]_vars

\* the cache used as a key-value store
NextRedis ==
  \/ Tick
  \/ \E k \in StoredKeys, v \in StoredValues, ttl \in StoredTtls :
       RedisServiceSet(k, v, ttl)
  \/ \E k \in StoredKeys : RedisServiceGet(k)

SpecRedis == Init /\ [][NextRedis]_vars

\* request logging
NextLogging ==
  \/ \E env \in NodeEnvs : InitializeLogger(env)
  \/ \E id \in 1..MaxRequests, route \in Routes : InterceptRequest(id, route)
  \/ \E c \in InFlight, o \in Outcomes : InterceptResponse(c, o)

SpecLogging == Init /\ [][NextLogging]_vars

\* revocation in both revisions
NextRevoke ==
  \/ Tick
  \/ \E e \in Emails : Register(e, InitialPassword)
  \/ \E u \in UserIds, f \in GenFaults : ALLogin(u, f)
  \/ \E u \in UserIds, f \in BOOLEAN : BLLogin(u, f)
  \/ \E a \in Presentable, r \in Presentable, f \in LogoutFaults :
       ALLogout(a, r, f)
  \/ \E a \in Presentable, r \in Presentable, f \in BLLogoutFaults :
       BLLogout(a, r, f)

SpecRevoke == Init /\ [][NextRevoke]_vars

\* --------------------------------------- register, one await at a time
\* AuthService.register up to the end of its first await: the lookup either
\* finds the email and the call throws ConflictException, or finds nothing
\* and the call goes on to userService.create
RegisterExists(email, password) ==
  /\ BagCardinality(calls) < MaxCalls
  /\ IF EmailExists(email)
     THEN /\ last' = Done("register", "Conflict", 0, 0, FALSE, FALSE)
                        @@ [email |-> email]
          /\ UNCHANGED calls
     ELSE /\ calls' = Enter([pc |-> "create", email |-> email,
                             password |-> password])
          /\ UNCHANGED last
  /\ UNCHANGED <<logState, fbLogins, logins, now, users, tokens, cache, alHist, blHist>>

\* userModel.create under the unique index on email: a second document with
\* the same email is rejected by the database with a duplicate-key error,
\* which register does not catch
RegisterCreate(call) ==
  /\ call \in InFlight
  /\ call.pc = "create"
  /\ calls' = Leave(call)
  /\ IF EmailExists(call.email)
     THEN /\ last' = Done("register", "DuplicateKey", 0, 0, FALSE, FALSE)
                        @@ [email |-> call.email]
          /\ UNCHANGED users
     ELSE LET doc == [fullName |-> FullName, email |-> call.email,
                      hashedPassword |-> bcryptHash(call.password),
                      roles |-> DefaultRoles]
          IN /\ users' = Append(users, doc)
             /\ last' = Done("register", "ok", 0, 0, FALSE, FALSE)
                           @@ [email |-> call.email,
                               data |-> registerResult(doc)]
  /\ UNCHANGED <<logState, fbLogins, logins, now, tokens, cache, alHist, blHist>>

NextRegister ==
  \/ Tick
  \/ \E e \in Emails, p \in Passwords : RegisterExists(e, p)
  \/ \E call \in InFlight : RegisterCreate(call)
  \/ \E u \in UserIds, f \in BOOLEAN : BLLogin(u, f)

SpecRegister == Init /\ [][NextRegister]_vars

\* ------------------------------------------------------ FacebookStrategy
\* a property the profile or the document does not have (undefined)
Absent == "absent"

\* what passport-facebook hands to validate: id, emails[0].value,
\* displayName, photos[0].value
Profiles ==
  {[id |-> id, email |-> e, displayName |-> "Zed", photo |-> ph] :
     id \in FacebookIds, e \in Emails \cup {Absent},
     ph \in {Absent, "p.jpg"}}

FacebookIdOf(doc) ==
  IF "facebookId" \in DOMAIN doc THEN doc.facebookId ELSE Absent

AvatarOf(doc) == IF "avatar" \in DOMAIN doc THEN doc.avatar ELSE Absent

\* the _id of the first document among matching, 0 (null) when none
First(matching) ==
  IF matching = {} THEN 0
  ELSE CHOOSE u \in matching : \A v \in matching : u <= v

\* userService.findOne({ facebookId })
FindOneByFacebookId(id) ==
  First({u \in UserIds : FacebookIdOf(users[u]) = id})

\* userService.findOne({ email })
FindOneByEmail(email) == First({u \in UserIds : users[u].email = email})

\* FacebookStrategy.validate: by facebookId, else by email (linking the
\* identity found to the id), else a new identity; an error of the user
\* store goes to done(error, false)
FacebookValidate(profile, fault) ==
  LET fullName == IF profile.displayName # "" THEN profile.displayName
                  ELSE "Facebook User"
      user == FindOneByFacebookId(profile.id)
      existingUser == IF profile.email # Absent
                      THEN FindOneByEmail(profile.email) ELSE 0
      created == [fullName |-> fullName, email |-> profile.email,
                  facebookId |-> profile.id, avatar |-> profile.photo,
                  roles |-> DefaultRoles]
      resolved == IF user # 0 THEN user
                  ELSE IF existingUser # 0 THEN existingUser
                  ELSE Len(users) + 1
  IN /\ IF fault
        THEN /\ last' = Done("facebook", "Error", 0, 0, TRUE, FALSE)
                          @@ [id |-> profile.id, email |-> profile.email,
                              user |-> 0]
             /\ UNCHANGED <<users, fbLogins>>
        ELSE /\ users' =
                  IF user # 0 THEN users
                  ELSE IF existingUser # 0
                  THEN [users EXCEPT ![existingUser] =
                          [facebookId |-> profile.id,
                           avatar |-> IF profile.photo # Absent
                                      THEN profile.photo
                                      ELSE AvatarOf(@)] @@ @]
                  ELSE Append(users, created)
             /\ fbLogins' =
                  [fbLogins EXCEPT
                     ![profile.id].resolved = @ \cup {resolved},
                     ![profile.id].created =
                        IF user = 0 /\ existingUser = 0
                        THEN @ \cup {resolved} ELSE @]
             /\ last' = Done("facebook", "ok", 0, 0, FALSE, FALSE)
                          @@ [id |-> profile.id, email |-> profile.email,
                              user |-> resolved]
     /\ UNCHANGED <<logState, logins, now, tokens, cache, calls, alHist, blHist>>

NextFacebook ==
  \/ \E e \in Emails : Register(e, InitialPassword)
  \/ \E p \in Profiles, f \in BOOLEAN : FacebookValidate(p, f)

SpecFacebook == Init /\ [][NextFacebook]_vars


\* ----------------------------------------------------------------- claims

\* C1: allow-list rotation. A refreshAccessToken call that starts after a
\* call on the same refresh token has returned a pair fails with
\* Unauthorized; the first call on an unexpired token minted by
\* generateTokens (never presented before, no failure injected) returns a
\* new pair.
C1_RotationSequential ==
  last.op = "refresh" =>
    /\ last.replay => last.res = "Unauthorized"
    /\ last.fresh /\ ~last.fault => last.res = "ok"

C1_Witness ==
  /\ last.op = "refresh" /\ last.replay /\ last.res = "Unauthorized"
  /\ consumed # {}

\* C2: blacklist revision. Once refreshToken(r) has succeeded, every later
\* refreshToken(r) fails with Unauthorized.
C2_ReplayRejected ==
  last.op = "blRefresh" /\ last.replay => last.res = "Unauthorized"

C4_LogoutRevokesAccess ==
  last.op = "alLogout" /\ last.res = "ok"
    => ~validateAccessToken(cache, last.a, FALSE)

\* C5: blacklist revision. While the password-change watermark of a subject
\* lives, validateToken is false for each of its access tokens minted
\* before the change and true for each of its tokens minted after the
\* change that is not blacklisted.
C5_WatermarkSeparates ==
  \A i \in DOMAIN tokens :
    LET t == tokens[i] IN
      RedisExists(cache, Key("token_iat_available", t.sub)) =>
        /\ t.kind = "access" /\ t.jti \in stale
             => ~validateToken(cache, t, FALSE)
        /\ t.jti \notin stale
             /\ ~RedisExists(cache, Key("token_blacklist", t.jti))
             => validateToken(cache, t, FALSE)

\* C6: a bearer token is accepted on a protected request exactly when it
\* verifies under the access secret, has not expired, is not blacklisted
\* and is not older than its subject's password-change watermark.
ValidForUse(tok) ==
  /\ JwtVerify(tok, "access", now)
  /\ ~RedisExists(cache, Key("blacklist", tok.jti))
  /\ RedisExists(cache, Key("token_iat_available", tok.sub))
       => tok.iat >= RedisGet(cache, Key("token_iat_available", tok.sub)).num

C6_GateIffValid ==
  \A t \in Presentable :
    JwtStrategyAccepts(cache, t, now, FALSE) <=> ValidForUse(t)

\* C7: blacklist revision. logout returns normally whatever the two token
\* strings are and whatever the cache does.
C7_LogoutNeverThrows == last.op = "blLogout" => last.res = "ok"

\* C8: blacklist revision. When exactly one of the two tokens passed to
\* logout cannot be decoded, the other token's jti is blacklisted.
C8_PartialLogoutRevokes ==
  last.op = "blLogout" /\ ~last.fault =>
    /\ last.a = 0 /\ last.r # 0
         => RedisExists(cache, Key("token_blacklist", last.r))
    /\ last.a # 0 /\ last.r = 0
         => RedisExists(cache, Key("token_blacklist", last.a))

\* C9: two refreshAccessToken calls on one refresh token can both return a
\* pair, and only when one of them passed the allow-list check while the
\* other was between its check and its delete.
C9_DoubleSpendOnlyInRace == reused \subseteq raced

C9_Witness == \E j \in reused : j \in raced /\ j \in consumed

\* C10: allow-list revision. Whatever goes wrong while refresh runs reaches
\* the caller as Unauthorized and as no other error.
C10_RefreshFailsUnauthorized ==
  last.op = "refresh" /\ last.res # "ok" => last.res = "Unauthorized"

\* C11: every blacklist record written by logout or refresh leaves the
\* cache no later than the natural expiry of the token it revokes.
C11_BlacklistTtlBounded ==
  \A i \in DOMAIN tokens :
    RedisExists(cache, Key("token_blacklist", tokens[i].jti))
      => cache[Key("token_blacklist", tokens[i].jti)].exp <= tokens[i].exp

\* C12: changePassword fails with NotFound when the subject id names no
\* identity and with Unauthorized when currentPassword does not match the
\* stored hash; either way the user collection and the cache stay as they
\* were.
C12_ChangePasswordRejects ==
  [][\A u \in 1..(Len(users) + 1), p \in Passwords, q \in Passwords,
       f \in BOOLEAN :
       changePassword(u, p, q, f) =>
         /\ u \notin DOMAIN users
              => last'.res = "NotFound" /\ UNCHANGED <<users, cache>>
         /\ u \in DOMAIN users /\ users[u].hashedPassword # bcryptHash(p)
              => last'.res = "Unauthorized" /\ UNCHANGED <<users, cache>>]_vars

C12_Witness ==
  /\ last.op = "changePassword" /\ last.res = "Unauthorized"
  /\ users # <<>>
  /\ \A u \in DOMAIN users :
       ~RedisExists(cache, Key("token_iat_available", u))

C14_GenerateAllOrNothing ==
  [][last'.op \in {"alLogin", "refresh"} /\ last'.res = "Error" =>
       /\ tokens' = tokens
       /\ \A k \in DOMAIN cache' : k[1] = "refresh" => k \in DOMAIN cache]_vars

C14_Witness ==
  /\ last.op = "alLogin" /\ last.res = "Error"
  /\ tokens = <<>>
  /\ \A k \in DOMAIN cache : k[1] # "refresh"

C16_ValidateTokenFailsClosed ==
  last.op = "validate" =>
    /\ last.res \in {"valid", "invalid"}
    /\ last.a = 0 \/ last.fault => last.res = "invalid"

C16_Witness ==
  /\ last.op = "validate" /\ last.fault /\ last.res = "invalid"
  /\ \E i \in DOMAIN tokens :
       tokens[i].jti = last.a /\ validateToken(cache, tokens[i], FALSE)

\* C17: SystemRolesGuard.canActivate allows the request when no roles are
\* required; otherwise it allows it exactly when the user's roles and the
\* required roles have a role in common and fails with Forbidden in every
\* other case; it changes no state.
RoleSet(array) == {array[i] : i \in DOMAIN array}

C17_GuardAllowsOnCommonRole ==
  [][last'.op = "canActivate" =>
       LET required == last'.requiredRoles
           user == last'.user
       IN /\ last'.res \in {"allow", "Forbidden"}
          /\ last'.res = "allow" <=>
               \/ ~required.defined
               \/ RoleSet(required.roles) = {}
               \/ /\ user.present /\ user.hasRoles
                  /\ RoleSet(required.roles) \cap RoleSet(user.roles) # {}
          /\ UNCHANGED <<now, users, tokens, cache, calls>>]_vars

C17_Witness ==
  /\ last.op = "canActivate" /\ last.res = "Forbidden"
  /\ last.user.hasRoles /\ last.user.roles # <<>>
  /\ last.requiredRoles.roles # <<>>

\* C18: login writes nothing to the user collection; the blacklist login
\* writes nothing to the cache; the allow-list login adds exactly one cache
\* record, refresh:{jti} of the refresh token it minted, holding the subject
\* id and expiring when that token expires.
C18_LoginFrame ==
  [][/\ last'.op \in {"alLogin", "blLogin"} => users' = users
     /\ last'.op = "blLogin" => cache' = cache
     /\ last'.op = "alLogin" /\ last'.res # "ok" => cache' = cache
     /\ last'.op = "alLogin" /\ last'.res = "ok" =>
          LET r == tokens'[Len(tokens')]
              k == Key("refresh", r.jti)
          IN /\ Len(tokens') = Len(tokens) + 2
             /\ r.kind = "refresh"
             /\ k \notin DOMAIN cache
             /\ DOMAIN cache' = DOMAIN cache \cup {k}
             /\ \A x \in DOMAIN cache : cache'[x] = cache[x]
             /\ cache'[k].val = Plain(r.sub)
             /\ cache'[k].exp = r.exp]_vars

C18_Witness ==
  /\ last.op = "alLogin" /\ last.res = "ok"
  /\ RedisExists(cache, Key("refresh", Len(tokens)))
  /\ users # <<>>

\* C19: every response leaves the interceptor as {statusCode, message,
\* data}: data is null for a null or undefined result; for a paginated
\* result (items plus a meta with the five numeric fields) data is the item
\* list and pagination equals the meta; otherwise data is the plain result
\* and there is no pagination. The listing of findUsers is such a paginated
\* result.
IsPaginated(value) ==
  /\ In("items", value) /\ In("meta", value)
  /\ isValidPaginationMeta(value.props.meta)

C19_Envelope ==
  last.op \in {"respond", "findUsers"} =>
    LET response == last.response
        result == IF last.op = "findUsers" THEN last.paginated
                  ELSE last.handler
    IN /\ {"statusCode", "message", "data"} \subseteq DOMAIN response
       /\ DOMAIN response \subseteq
            {"statusCode", "message", "data", "pagination"}
       /\ IF result.type \in {"null", "undefined"}
          THEN response.data = JsNull
               /\ "pagination" \notin DOMAIN response
          ELSE IF IsPaginated(result)
          THEN /\ response.data = transformToPlain(result.props.items)
               /\ "pagination" \in DOMAIN response
               /\ response.pagination = result.props.meta
          ELSE /\ response.data = transformToPlain(result)
               /\ "pagination" \notin DOMAIN response

\* C20: get(k) called right after set(k, v) returns a value equal to v,
\* of the same type.
C20_GetReturnsWhatWasSet ==
  [][last.op = "set" /\ last'.op = "get" /\ last'.key = last.key
       => last'.value = last.value]_vars

\* C21: for NODE_ENV=development the console level is silly and the file
\* level debug, with 5m files kept 7d; for NODE_ENV=production the console
\* level is info and the file level silly, with 10m files kept 14d.
C21_LevelsPerEnvironment ==
  /\ loggingConfig.nodeEnv = "development" =>
       /\ loggingConfig.config.console.level = "silly"
       /\ loggingConfig.config.file.level = "debug"
       /\ loggingConfig.config.file.maxSize = "5m"
       /\ loggingConfig.config.file.maxFiles = "7d"
  /\ loggingConfig.nodeEnv = "production" =>
       /\ loggingConfig.config.console.level = "info"
       /\ loggingConfig.config.file.level = "silly"
       /\ loggingConfig.config.file.maxSize = "10m"
       /\ loggingConfig.config.file.maxFiles = "14d"

\* C28: every entry the interceptor logs for a request carries the
\* Controller:handler context of that request, the one its request-phase
\* entries carry.
C28_EntryCarriesOwnContext ==
  \A i \in DOMAIN logs :
    \A j \in DOMAIN logs :
      logs[i].req = logs[j].req => logs[i].context = logs[j].context

\* C29: in every "Request body" entry no password submitted in the body
\* appears in clear, at any depth.
RECURSIVE Leaks(_)
Leaks(value) ==
  IF value.type = "string"
  THEN \E p \in Passwords : value = Str(Plain(p))
  ELSE IF value.type = "array"
  THEN \E i \in DOMAIN value.elems : Leaks(value.elems[i])
  ELSE IF value.type = "object"
  THEN \E k \in DOMAIN value.props : Leaks(value.props[k])
  ELSE FALSE

C29_NoPasswordInLoggedBody ==
  \A i \in DOMAIN logs :
    logs[i].message = "Request body" => ~Leaks(logs[i].meta)

C23_ConcurrentRegister ==
  /\ \A u, v \in UserIds : users[u].email = users[v].email => u = v
  /\ last.op = "register" /\ last.res # "ok" => last.res = "Conflict"

\* C24: every refresh:{jti} record in the cache belongs to a refresh token
\* that generateTokens minted, holds that token's subject id, and belongs to
\* a token that no successful refresh has consumed and that has not been
\* presented to logout.
C24_AllowListRecords ==
  \A k \in DOMAIN cache :
    k[1] = "refresh" =>
      /\ \E i \in DOMAIN tokens :
           /\ tokens[i].jti = k[2]
           /\ tokens[i].kind = "refresh"
           /\ tokens[i].by = "AL"
           /\ cache[k].val = Plain(tokens[i].sub)
      /\ k[2] \notin consumed
      /\ ~(last.op = "alLogout" /\ last.r = k[2])

\* C25: refreshAccessToken has deleted the presented token's allow-list
\* record when it starts minting; when minting fails the call fails, no
\* token is minted and no allow-list record is added, the presented token
\* is off the allow-list, and only the jti of a newly minted refresh token
\* is ever admitted, so the presented token stays refused.
C25_FailedMintEndsSession ==
  [][/\ \A c \in InFlight :
          c.pc = "mint" /\ calls' = Leave(c) /\ last'.res # "ok" =>
            /\ ~RedisExists(cache, Key("refresh", c.tok.jti))
            /\ last'.op = "refresh" /\ last'.res = "Error"
            /\ tokens' = tokens
            /\ \A k \in DOMAIN cache' : k[1] = "refresh" => k \in DOMAIN cache
            /\ ~validateRefreshToken(cache', c.tok.jti, FALSE)
     /\ \A k \in DOMAIN cache' \ DOMAIN cache :
          k[1] = "refresh" => k[2] > Len(tokens)]_vars

C25_Witness ==
  /\ last.op = "refresh" /\ last.res = "Error"
  /\ \E i \in DOMAIN tokens :
       /\ tokens[i].kind = "refresh" /\ now < tokens[i].exp
       /\ tokens[i].jti \in started
       /\ ~RedisExists(cache, Key("refresh", tokens[i].jti))

\* C26: the access token a successful refreshAccessToken returns has the
\* subject of the presented refresh token and carries the display name and
\* roles of that subject's identity in the user store.
C26_RefreshKeepsIdentity ==
  [][\A c \in InFlight :
       c.pc = "mint" /\ calls' = Leave(c) /\ last'.res = "ok" =>
         LET access == tokens'[Len(tokens) + 1]
         IN /\ access.kind = "access"
            /\ access.sub = c.tok.sub
            /\ access.fullName = users[c.tok.sub].fullName
            /\ access.roles = users[c.tok.sub].roles]_vars

\* C27: changePassword changes nothing but the subject's password hash and
\* the key token_iat_available:{sub} (no blacklist record, no token); a
\* refresh token minted before a password change and not yet expired is
\* accepted by a fault-free refreshToken after the change, and validateToken
\* accepts both tokens of the pair a refresh returns.
C27_RefreshSurvivesPasswordChange ==
  [][/\ last'.op = "changePassword" =>
          /\ tokens' = tokens
          /\ \A k \in DOMAIN cache' \ DOMAIN cache :
               k[1] = "token_iat_available"
          /\ \A k \in DOMAIN cache :
               k[1] # "token_iat_available" =>
                 k \in DOMAIN cache' /\ cache'[k] = cache[k]
          /\ Len(users') = Len(users)
          /\ \A u \in UserIds :
               [users'[u] EXCEPT !.hashedPassword = users[u].hashedPassword]
                 = users[u]
     /\ \A i \in DOMAIN tokens :
          /\ last'.op = "blRefresh" /\ last'.r = tokens[i].jti
          /\ tokens[i].kind = "refresh" /\ tokens[i].jti \in stale
          /\ now < tokens[i].exp /\ ~last'.fault
          => last'.res = "ok"
     /\ last'.op = "blRefresh" /\ last'.res = "ok" =>
          /\ Len(tokens') = Len(tokens) + 2
          /\ validateToken(cache', tokens'[Len(tokens) + 1], FALSE)
          /\ validateToken(cache', tokens'[Len(tokens) + 2], FALSE)]_vars

C27_Witness ==
  /\ last.op = "blRefresh" /\ last.res = "ok" /\ last.r \in stale
  /\ \E i \in DOMAIN tokens :
       /\ tokens[i].jti = last.r
       /\ RedisExists(cache, Key("token_iat_available", tokens[i].sub))
       /\ tokens[i].iat < RedisGet(cache, Key("token_iat_available",
                                              tokens[i].sub)).num

\* C30: the logins of one Facebook profile id all resolve to one identity
\* and at most one identity is created for the id; a login whose id no
\* identity has and whose email some identity has links that identity to
\* the id and creates none.
C30_FindOrCreate ==
  [][/\ \A id \in FacebookIds :
          /\ Cardinality(fbLogins'[id].resolved) <= 1
          /\ Cardinality(fbLogins'[id].created) <= 1
     /\ \A u \in UserIds :
          /\ last'.op = "facebook" /\ last'.res = "ok"
          /\ \A v \in UserIds : FacebookIdOf(users[v]) # last'.id
          /\ last'.email # Absent /\ users[u].email = last'.email
          => /\ Len(users') = Len(users)
             /\ FacebookIdOf(users'[u]) = last'.id
             /\ last'.user = u]_vars

TypeOK == now \in 1..MaxTime

====
